---- MODULE Spec2Model ----
(***************************************************************************)
(* A model of backend/app.py: the slide-outline parser (parse_slides), the *)
(* theme lookup (apply_template_style), the deck builder                   *)
(* (create_ppt_from_slides) and the two generation endpoints               *)
(* (/generate-ppt, /generate-auto-ppt) writing into the shared output      *)
(* directory.                                                              *)
(*                                                                         *)
(* A Python str is modelled as a sequence of characters; a character is a  *)
(* one-character TLA+ string, except the bullet glyph U+2022, which the    *)
(* TLA+ lexer does not accept and which is written BULLET.                 *)
(***************************************************************************)
EXTENDS Integers, Sequences, FiniteSets, TLC

VARIABLES
    \* ---- parse_slides applied to one text --------------------------------
    outline,      \* the lines the input text is made of (names in Chunk)
    final_newline,\* whether the input text ends with a newline
    text,         \* the text handed to parse_slides
    max_slides,   \* the max_slides argument
    parsed,       \* the list parse_slides returned
    stage,        \* "input" before the call, "parsed" after it
    \* ---- create_ppt_from_slides applied to one list of records -----------
    build_in,     \* its arguments: [slides_data, data], data the request body
    prs,          \* the slides added to the Presentation so far
    build_pc,     \* "loop" while slides are added, "saved" after prs.save
    \* ---- the server: requests in flight and the output directory ---------
    pc,           \* per request: "idle", "calling", "saving" or "done"
    req,          \* per request: its route and JSON body
    ai_text,      \* per request: what generate_ppt_content returned
    slides_data,  \* per request: what parse_slides returned
    filename,     \* per request: the filename create_ppt_from_slides chose
    response,     \* per request: the responses sent, in order
    trace,        \* per request: the steps its handler has taken, in order
    written,      \* per request: the files its prs.save created or changed
    generated,    \* OUTPUT_DIR: filename -> file contents
    issued        \* the values uuid.uuid4() has returned so far

parser_vars == <<outline, final_newline, text, max_slides, parsed, stage>>

builder_vars == <<build_in, prs, build_pc>>

request_vars == <<pc, req, ai_text, slides_data, filename, response, trace, written>>

dir_vars == <<generated, issued>>

vars == <<parser_vars, builder_vars, request_vars, dir_vars>>

-----------------------------------------------------------------------------
(* Bounds                                                                  *)

\* longest outline (in lines) handed to parse_slides
MaxLines == 4

\* requests the server handles, all of which may be in flight together
MaxRequests == 2

-----------------------------------------------------------------------------
(* Characters and Python's str helpers                                     *)

BULLET == "U+2022"

\* The value Python calls None: told apart from every str, which is a
\* sequence of single characters.
None == <<"None">>

\* str.isspace() / the regex class \s, over the characters of the model.
IsSpace(c) == c \in {" ", "\n", "\t", "\r", "\f"}

\* The regex class \d.
IsDigit(c) == c \in {"0", "1", "2", "3", "4", "5", "6", "7", "8", "9"}

\* The characters l.strip(" -•\n") removes (app.py line 40).
BulletGlyphs == {" ", "-", BULLET, "\n"}

\* The characters str.strip() removes.
Whitespace == {" ", "\n", "\t", "\r", "\f"}

RECURSIVE SkipSpace(_, _)
\* Greedy \s*: the first position at or after i that holds no whitespace.
SkipSpace(t, i) ==
    IF i <= Len(t) /\ IsSpace(t[i]) THEN SkipSpace(t, i + 1) ELSE i

RECURSIVE SkipDigits(_, _)
\* Greedy \d*: the first position at or after i that holds no digit.
SkipDigits(t, i) ==
    IF i <= Len(t) /\ IsDigit(t[i]) THEN SkipDigits(t, i + 1) ELSE i

RECURSIVE LStrip(_, _)
LStrip(s, chars) ==
    IF s # <<>> /\ Head(s) \in chars THEN LStrip(Tail(s), chars) ELSE s

RECURSIVE RStrip(_, _)
RStrip(s, chars) ==
    IF s # <<>> /\ s[Len(s)] \in chars
    THEN RStrip(SubSeq(s, 1, Len(s) - 1), chars)
    ELSE s

\* s.strip(chars)
Strip(s, chars) == RStrip(LStrip(s, chars), chars)

RECURSIVE Split(_, _)
\* s.split(sep) for a one-character separator: "" splits into [""].
Split(s, sep) ==
    IF \E i \in 1..Len(s) : s[i] = sep
    THEN LET i == CHOOSE k \in 1..Len(s) :
                      s[k] = sep /\ \A m \in 1..(k - 1) : s[m] # sep
         IN  <<SubSeq(s, 1, i - 1)>> \o Split(SubSeq(s, i + 1, Len(s)), sep)
    ELSE <<s>>

\* seq[:n], Python's slice: a negative n counts from the end.
PySlice(seq, n) ==
    IF n >= 0
    THEN SubSeq(seq, 1, IF n < Len(seq) THEN n ELSE Len(seq))
    ELSE SubSeq(seq, 1, IF Len(seq) + n > 0 THEN Len(seq) + n ELSE 0)

-----------------------------------------------------------------------------
(* parse_slides (app.py lines 36-43)                                       *)

\* The literal word of the marker pattern.
SlideWord == <<"S", "l", "i", "d", "e">>

\* A case-insensitive match of the word, as re.IGNORECASE would give.
WordAtIgnoreCase(t, i) ==
    /\ i + 4 <= Len(t)
    /\ t[i] \in {"S", "s"}
    /\ t[i + 1] \in {"L", "l"}
    /\ t[i + 2] \in {"I", "i"}
    /\ t[i + 3] \in {"D", "d"}
    /\ t[i + 4] \in {"E", "e"}

\* The literal "Slide" of the pattern matches at i: the pattern is compiled
\* with re.DOTALL only, so the match is case-sensitive.
WordAt(t, i) ==
    /\ i + 4 <= Len(t)
    /\ SubSeq(t, i, i + 4) = SlideWord

\* Slide\s*\d+\s*: matched at i: the position after the colon, 0 for no
\* match.  The classes \s, \d and ":" are disjoint, so the greedy match is
\* the only one.
MarkerEnd(t, i) ==
    IF WordAt(t, i)
    THEN LET a == SkipSpace(t, i + 5)
             b == SkipDigits(t, a)
             c == SkipSpace(t, b)
         IN  IF b > a /\ c <= Len(t) /\ t[c] = ":" THEN c + 1 ELSE 0
    ELSE 0

\* $ without re.MULTILINE: the end of the text, or just before a newline
\* that ends it.
AtDollar(t, k) == k = Len(t) + 1 \/ (k = Len(t) /\ t[k] = "\n")

\* The lookahead (?=Slide\s*\d+\s*:|$) at k.
Lookahead(t, k) == MarkerEnd(t, k) # 0 \/ AtDollar(t, k)

RECURSIVE NextMarker(_, _)
\* The leftmost marker at or after i; 0 when there is none.
NextMarker(t, i) ==
    IF i > Len(t) THEN 0
    ELSE IF MarkerEnd(t, i) # 0 THEN i
    ELSE NextMarker(t, i + 1)

\* The group written greedy, (.*): it runs to the end of the text.
CaptureEndGreedy(t, j) == Len(t) + 1

RECURSIVE CaptureEnd(_, _)
\* The lazy group (.*?) from j: it stops at the first position where the
\* lookahead holds (under re.DOTALL "." matches newlines too).
CaptureEnd(t, j) == IF Lookahead(t, j) THEN j ELSE CaptureEnd(t, j + 1)

RECURSIVE FindAll(_, _)
\* re.findall of the pattern from position pos: the captured groups of the
\* non-overlapping matches, left to right.
FindAll(t, pos) ==
    LET i == NextMarker(t, pos) IN
    IF i = 0 THEN <<>>
    ELSE LET j == SkipSpace(t, MarkerEnd(t, i))
             k == CaptureEnd(t, j)
         IN  <<SubSeq(t, j, k - 1)>> \o FindAll(t, k)

\* The filter of the comprehension: "if l.strip()".
NonBlank(l) == Strip(l, Whitespace) # <<>>

\* lines = [l.strip(" -•\n") for l in s.strip().split("\n") if l.strip()]
SegmentLines(s) ==
    LET kept == SelectSeq(Split(Strip(s, Whitespace), "\n"), NonBlank)
    IN  [n \in 1..Len(kept) |-> Strip(kept[n], BulletGlyphs)]

RECURSIVE ParseSegments(_)
\* The loop over slides: a segment with lines appends a record.
ParseSegments(slides) ==
    IF slides = <<>> THEN <<>>
    ELSE LET lines == SegmentLines(Head(slides)) IN
         (IF lines # <<>>
          THEN <<[title |-> lines[1], points |-> Tail(lines)]>>
          ELSE <<>>) \o ParseSegments(Tail(slides))

parse_slides(t, m) == PySlice(ParseSegments(FindAll(t, 1)), m)

\* The default of parse_slides' max_slides and of slide_count.
DefaultMaxSlides == 6

-----------------------------------------------------------------------------
(* apply_template_style and create_ppt_from_slides (app.py lines 45-113)   *)

\* RGBColor(r, g, b) is written <<r, g, b>>.
theme_colors ==
    [ modern    |-> [bg |-> <<25, 25, 112>>,   text |-> <<255, 255, 255>>],
      minimal   |-> [bg |-> <<255, 255, 255>>, text |-> <<30, 30, 30>>],
      corporate |-> [bg |-> <<0, 51, 102>>,    text |-> <<255, 215, 0>>],
      creative  |-> [bg |-> <<128, 0, 128>>,   text |-> <<255, 255, 255>>],
      dark      |-> [bg |-> <<15, 15, 15>>,    text |-> <<200, 200, 200>>] ]

\* dict.get(key) without a default: None for a key the table lacks.
ThemeWithoutDefault(template) ==
    IF template \in DOMAIN theme_colors
    THEN theme_colors[template]
    ELSE [bg |-> None, text |-> None]

\* colors = theme_colors.get(template, theme_colors["modern"])
ThemeOf(template) ==
    IF template \in DOMAIN theme_colors
    THEN theme_colors[template]
    ELSE theme_colors["modern"]

\* apply_template_style(slide, template): the colour it fills the slide's
\* background with (fill) and the text colour it returns (text_color).
apply_template_style(template) ==
    LET colors == ThemeOf(template)
    IN  [fill |-> colors.bg, text_color |-> colors.text]

\* The glyph each bullet line is prefixed with, U+27A4.
ARROW == "U+27A4"

\* One pass of the loop over slides_data (lines 83-108): the slide added.
AddedSlide(slide_data, template) ==
    LET style == apply_template_style(template) IN
    [ background |-> style.fill,
      title      |-> [text |-> slide_data.title, color |-> style.text_color],
      bullets    |-> [n \in 1..Len(slide_data.points) |->
                        [text  |-> <<ARROW, " ">>
                                      \o Strip(slide_data.points[n], Whitespace),
                         color |-> style.text_color]] ]

\* The Presentation after the whole loop.
Deck(sd, template) == [n \in 1..Len(sd) |-> AddedSlide(sd[n], template)]

\* The values uuid.uuid4() can return.
UUIDs == 1..MaxRequests

\* A name that does not depend on uuid4: every file gets the same one.
FixedName(used) == {1}

\* uuid.uuid4(): a random 122-bit value, modelled by its contract (RFC 4122):
\* a value never returned before.
Uuid4Values(used) == UUIDs \ used

\* filename = f"{uuid.uuid4()}.pptx"
Filename(u) == <<u, ".pptx">>

\* prs.save left out: the directory stays as it was.
NothingSaved(dir, name, contents) == dir

\* prs.save(os.path.join(OUTPUT_DIR, filename)): the file is created, or
\* replaced when the name exists.
SaveFile(dir, name, contents) ==
    [f \in DOMAIN dir \cup {name} |-> IF f = name THEN contents ELSE dir[f]]

\* The files of dir2 that dir1 lacks or holds with other contents.
Changed(dir1, dir2) ==
    {f \in DOMAIN dir2 : f \notin DOMAIN dir1 \/ dir1[f] # dir2[f]}

-----------------------------------------------------------------------------
(* The request handlers (app.py lines 59-75 and 118-155)                   *)

Requests == 1..MaxRequests

\* data.get(key, default)
Get(data, key, default) == IF key \in DOMAIN data THEN data[key] ELSE default

\* "if not topic" written without the .strip() of the line before it.
EmptyUnstripped(s) == s = <<>>

\* topic = data.get(..., '').strip(); "if not topic"
EmptyTopic(s) == Strip(s, Whitespace) = <<>>

\* "if not ai_text" written as "if ai_text is None".
IsNone(t) == t = None

\* "if not ai_text": None and the empty str are both falsy.
NoText(t) == t = None \/ t = <<>>

\* The check "if not slides_data" left out.
NeverEmpty(sd) == FALSE

\* "if not slides_data"
NoSlides(sd) == sd = <<>>

\* f"/generated/{filename}"
GeneratedPath(name) == <<"/generated/">> \o name

\* jsonify(body), status
Json(status, body) == [status |-> status, body |-> body]

Failure(status, error) == Json(status, [success |-> FALSE, error |-> error])

\* The body of the 200 response of /generate-ppt (lines 129-133).
PptSuccess(name) ==
    Json(200, [success |-> TRUE,
               file_path |-> GeneratedPath(name),
               download_url |-> GeneratedPath(name)])

\* The body of the 200 response of /generate-auto-ppt (lines 150-155).
AutoSuccess(name, sd) ==
    Json(200, [success |-> TRUE,
               file_path |-> GeneratedPath(name),
               download_url |-> GeneratedPath(name),
               slides_generated |-> Len(sd)])

\* What Flask answers when a view raises.
InternalServerError == Json(500, [html |-> "Internal Server Error"])

\* Texts a request body or the generation service can carry.
NoMarkerText == <<"h", "i">>

OneSlideText ==
    <<"S", "l", "i", "d", "e", " ", "1", ":", " ", "a", "\n", "-", " ", "b">>

TwoSlideText ==
    <<"S", "l", "i", "d", "e", " ", "1", ":", " ", "a", "\n",
      "S", "l", "i", "d", "e", " ", "2", ":", " ", "b", "\n", "-", " ", "c">>

\* JSON bodies of POST /generate-ppt.
PptBodies ==
    {[text |-> t] : t \in {<<>>, <<" ">>, NoMarkerText, OneSlideText, TwoSlideText}}
    \cup {[text |-> TwoSlideText, template |-> "dark"], [template |-> "dark"]}

\* JSON bodies of POST /generate-auto-ppt.
AutoBodies ==
    {[topic |-> <<" ">>], [slide_count |-> 1],
     [topic |-> <<"a", "i">>],
     [topic |-> <<"a", "i">>, slide_count |-> 1, template |-> "dark"],
     [topic |-> <<"a", "i">>, slide_count |-> -1]}

\* What generate_ppt_content can return: None when generate_content (or
\* reading response.text) raises, else the text of the response.
ContentResults == {None, <<>>, NoMarkerText, TwoSlideText}

Step(r, steps) == trace' = [trace EXCEPT ![r] = @ \o steps]

Respond(r, resp) ==
    /\ response' = [response EXCEPT ![r] = Append(@, resp)]
    /\ pc' = [pc EXCEPT ![r] = "done"]

\* create_ppt_from_slides up to its filename (lines 78-111): the deck is
\* built in memory and a name is drawn; the file is not written yet.
EnterBuilder(r, sd) ==
    \E u \in Uuid4Values(issued) :
        /\ issued' = issued \cup {u}
        /\ filename' = [filename EXCEPT ![r] = Filename(u)]
        /\ slides_data' = [slides_data EXCEPT ![r] = sd]
        /\ pc' = [pc EXCEPT ![r] = "saving"]
        /\ UNCHANGED response

\* POST /generate-ppt: generate_ppt_api up to prs.save.
generate_ppt_api(r, data) ==
    /\ pc[r] = "idle"
    /\ req' = [req EXCEPT ![r] = [route |-> "/generate-ppt", data |-> data]]
    /\ LET topic_text == Strip(Get(data, "text", <<>>), Whitespace)
           sd == parse_slides(topic_text, DefaultMaxSlides)
       IN  IF EmptyTopic(Get(data, "text", <<>>))
           THEN /\ Respond(r, Failure(400, "Empty topic"))
                /\ Step(r, <<"validate", "respond">>)
                /\ UNCHANGED <<slides_data, filename, issued>>
           ELSE IF NoSlides(sd)
           THEN /\ Respond(r, Failure(400, "No valid slides found"))
                /\ Step(r, <<"validate", "parse", "respond">>)
                /\ UNCHANGED <<slides_data, filename, issued>>
           ELSE /\ EnterBuilder(r, sd)
                /\ Step(r, <<"validate", "parse", "build">>)
    /\ UNCHANGED <<ai_text, written, generated, parser_vars, builder_vars>>

\* POST /generate-auto-ppt: generate_auto_ppt_api up to the call of
\* model.generate_content, which blocks the handler.  slide_count is an
\* integer of the body, on which int() (line 140) is the identity.
generate_auto_ppt_api(r, data) ==
    /\ pc[r] = "idle"
    /\ req' = [req EXCEPT ![r] = [route |-> "/generate-auto-ppt", data |-> data]]
    /\ IF EmptyTopic(Get(data, "topic", <<>>))
       THEN /\ Respond(r, Failure(400, "No topic provided"))
            /\ Step(r, <<"validate", "respond">>)
       ELSE /\ pc' = [pc EXCEPT ![r] = "calling"]
            /\ Step(r, <<"validate", "call">>)
            /\ UNCHANGED response
    /\ UNCHANGED <<ai_text, slides_data, filename, written, dir_vars,
                   parser_vars, builder_vars>>

\* generate_ppt_content returns result, and generate_auto_ppt_api goes on
\* up to prs.save.
generate_ppt_content(r, result) ==
    /\ pc[r] = "calling"
    /\ ai_text' = [ai_text EXCEPT ![r] = result]
    /\ LET slide_count == Get(req[r].data, "slide_count", DefaultMaxSlides)
           sd == parse_slides(result, slide_count)
       IN  IF NoText(result)
           THEN /\ Respond(r, Failure(500, "AI generation failed"))
                /\ Step(r, <<"respond">>)
                /\ UNCHANGED <<slides_data, filename, issued>>
           ELSE IF NoSlides(sd)
           THEN /\ Respond(r, Failure(400, "AI did not return valid slides"))
                /\ Step(r, <<"parse", "respond">>)
                /\ UNCHANGED <<slides_data, filename, issued>>
           ELSE /\ EnterBuilder(r, sd)
                /\ Step(r, <<"parse", "build">>)
    /\ UNCHANGED <<req, written, generated, parser_vars, builder_vars>>

\* prs.save(filepath) succeeds; create_ppt_from_slides returns the filename
\* and the handler answers 200.
prs_save(r) ==
    /\ pc[r] = "saving"
    /\ LET template == Get(req[r].data, "template", "modern")
           dir == SaveFile(generated, filename[r],
                           [deck |-> Deck(slides_data[r], template),
                            complete |-> TRUE])
       IN  /\ generated' = dir
           /\ written' = [written EXCEPT ![r] = @ \cup Changed(generated, dir)]
    /\ Respond(r, IF req[r].route = "/generate-ppt"
                  THEN PptSuccess(filename[r])
                  ELSE AutoSuccess(filename[r], slides_data[r]))
    /\ Step(r, <<"respond">>)
    /\ UNCHANGED <<req, ai_text, slides_data, filename, issued,
                   parser_vars, builder_vars>>

\* prs.save(filepath) raises (the disk is full, the directory is gone):
\* nothing catches it, Flask answers 500, and whatever was written of the
\* file stays.
prs_save_raises(r, partial) ==
    /\ pc[r] = "saving"
    /\ LET dir == IF partial
                  THEN SaveFile(generated, filename[r],
                                [deck |-> <<>>, complete |-> FALSE])
                  ELSE generated
       IN  /\ generated' = dir
           /\ written' = [written EXCEPT ![r] = @ \cup Changed(generated, dir)]
    /\ Respond(r, InternalServerError)
    /\ Step(r, <<"raise", "respond">>)
    /\ UNCHANGED <<req, ai_text, slides_data, filename, issued,
                   parser_vars, builder_vars>>

-----------------------------------------------------------------------------
(* create_ppt_from_slides, one pass of its loop at a time                  *)

\* Lists of records handed to create_ppt_from_slides.
BuildInputs ==
    { <<[title |-> <<"a">>, points |-> <<>>]>>,
      parse_slides(OneSlideText, DefaultMaxSlides),
      parse_slides(TwoSlideText, DefaultMaxSlides),
      parse_slides(TwoSlideText \o <<"\n">> \o OneSlideText, DefaultMaxSlides) }

\* The template field of a request body: a table name, another name, the
\* empty string, or no field at all.
TemplateBodies ==
    {[template |-> n] : n \in DOMAIN theme_colors \cup {"", "unknown-xyz", "Modern"}}
    \cup {[topic |-> <<"a", "i">>]}

\* Lines 82-108: the next record of slides_data becomes a slide.
add_slide ==
    /\ build_pc = "loop"
    /\ Len(prs) < Len(build_in.slides_data)
    /\ prs' = Append(prs, AddedSlide(build_in.slides_data[Len(prs) + 1],
                                     Get(build_in.data, "template", "modern")))
    /\ UNCHANGED <<build_in, build_pc, request_vars, dir_vars, parser_vars>>

\* Lines 110-113: the finished Presentation is saved under a new name.
save_presentation ==
    /\ build_pc = "loop"
    /\ Len(prs) = Len(build_in.slides_data)
    /\ \E u \in Uuid4Values(issued) :
        /\ issued' = issued \cup {u}
        /\ generated' = SaveFile(generated, Filename(u),
                                 [deck |-> prs, complete |-> TRUE])
    /\ build_pc' = "saved"
    /\ UNCHANGED <<build_in, prs, request_vars, parser_vars>>

-----------------------------------------------------------------------------
(* Initial states and specifications                                       *)

\* No call of parse_slides under way.
ParserOff ==
    /\ outline = <<>>
    /\ final_newline = FALSE
    /\ text = <<>>
    /\ max_slides = DefaultMaxSlides
    /\ parsed = <<>>
    /\ stage = "off"

\* No call of create_ppt_from_slides under way.
BuilderOff ==
    /\ build_in = [slides_data |-> <<>>, data |-> [template |-> "modern"]]
    /\ prs = <<>>
    /\ build_pc = "off"

\* The server after start-up: no request yet, OUTPUT_DIR just made
\* (os.makedirs, line 31).
ServerInit ==
    /\ pc = [r \in Requests |-> "idle"]
    /\ req = [r \in Requests |-> [route |-> "none", data |-> [none |-> TRUE]]]
    /\ ai_text = [r \in Requests |-> None]
    /\ slides_data = [r \in Requests |-> <<>>]
    /\ filename = [r \in Requests |-> <<>>]
    /\ response = [r \in Requests |-> <<>>]
    /\ trace = [r \in Requests |-> <<>>]
    /\ written = [r \in Requests |-> {}]
    /\ generated = <<>>
    /\ issued = {}

Init == ServerInit /\ ParserOff /\ BuilderOff

Next ==
    \E r \in Requests :
        \/ \E data \in PptBodies : generate_ppt_api(r, data)
        \/ \E data \in AutoBodies : generate_auto_ppt_api(r, data)
        \/ \E result \in ContentResults : generate_ppt_content(r, result)
        \/ prs_save(r)

\* The server, its collaborators working.
Spec == Init /\ [][Next]_vars

NextFault ==
    \/ Next
    \/ \E r \in Requests, partial \in BOOLEAN : prs_save_raises(r, partial)

\* The server with a prs.save that can raise.
SpecFault == Init /\ [][NextFault]_vars

BuildInit ==
    /\ ServerInit
    /\ ParserOff
    /\ build_in \in [slides_data : BuildInputs, data : TemplateBodies]
    /\ prs = <<>>
    /\ build_pc = "loop"

BuildNext == add_slide \/ save_presentation

\* create_ppt_from_slides applied to one list of records.
SpecBuild == BuildInit /\ [][BuildNext]_vars

-----------------------------------------------------------------------------
(* Inputs of parse_slides                                                  *)

\* The lines input texts are made of.  A line with a mark starts with the
\* marker word followed by mark; body is the rest of the line.
Chunk ==
    [ title1  |-> [marked |-> TRUE,  mark |-> <<" ", "1", ":">>,
                   body |-> <<" ", "a">>],
      bare12  |-> [marked |-> TRUE,  mark |-> <<" ", " ", "1", "2", " ", ":">>,
                   body |-> <<>>],
      lower   |-> [marked |-> FALSE, mark |-> <<>>,
                   body |-> <<"s", "l", "i", "d", "e", " ", "1", ":", " ", "a">>],
      point   |-> [marked |-> FALSE, mark |-> <<>>, body |-> <<"-", " ", "b">>],
      glyph   |-> [marked |-> FALSE, mark |-> <<>>, body |-> <<"-">>],
      dot     |-> [marked |-> FALSE, mark |-> <<>>, body |-> <<BULLET, " ", "a", " ", "-">>],
      blank   |-> [marked |-> FALSE, mark |-> <<>>, body |-> <<" ">>] ]

ChunkNames == DOMAIN Chunk

\* One line of text, its marker word written as word.
RenderLine(c, word) ==
    (IF Chunk[c].marked THEN word \o Chunk[c].mark ELSE <<>>)
        \o Chunk[c].body \o <<"\n">>

RECURSIVE RenderLines(_, _)
RenderLines(o, word) ==
    IF o = <<>> THEN <<>>
    ELSE RenderLine(Head(o), word) \o RenderLines(Tail(o), word)

\* The text of an outline, with or without the newline that ends it.
Render(o, nl, word) ==
    LET t == RenderLines(o, word)
    IN  IF nl \/ t = <<>> THEN t ELSE SubSeq(t, 1, Len(t) - 1)

Outlines == UNION {[1..n -> ChunkNames] : n \in 0..MaxLines}

\* The outline of the specification's scenario (section 8).
ExampleText ==
    <<"S", "l", "i", "d", "e", " ", "1", ":", " ", "I", "n", "t", "r", "o", "\n",
      "-", " ", "p", "o", "i", "n", "t", " ", "a", "\n",
      "-", " ", "p", "o", "i", "n", "t", " ", "b", "\n",
      "S", "l", "i", "d", "e", " ", "2", ":", " ",
      "C", "o", "n", "c", "l", "u", "s", "i", "o", "n", "\n",
      "-", " ", "p", "o", "i", "n", "t", " ", "c">>

\* The values of max_slides: the default, and the slide_count a request
\* body carries (any integer: app.py line 140).
MaxSlidesValues == {-1, 0, 1, 2, DefaultMaxSlides}

ParseInit ==
    /\ ServerInit
    /\ BuilderOff
    /\ stage = "input"
    /\ parsed = <<>>
    /\ max_slides = DefaultMaxSlides
    /\ \/ /\ outline \in Outlines
          /\ final_newline \in BOOLEAN
          /\ text = Render(outline, final_newline, SlideWord)
       \/ /\ outline = <<>>
          /\ final_newline = FALSE
          /\ text = ExampleText

\* A call parse_slides(text, m).
ParseSlides(m) ==
    /\ stage = "input"
    /\ max_slides' = m
    /\ parsed' = parse_slides(text, m)
    /\ stage' = "parsed"
    /\ UNCHANGED <<outline, final_newline, text, builder_vars, request_vars,
                   dir_vars>>

ParseNext == \E m \in MaxSlidesValues : ParseSlides(m)

\* parse_slides applied to one text.
SpecParse == ParseInit /\ [][ParseNext]_vars

-----------------------------------------------------------------------------
(* Properties of parse_slides                                              *)

\* The text is the rendering of the outline (every input but ExampleText).
FromOutline == text = Render(outline, final_newline, SlideWord)

\* The number of "Slide N:" markers in t.
CountMarkers(t) == Cardinality({i \in 1..Len(t) : MarkerEnd(t, i) # 0})

Min(a, b) == IF a <= b THEN a ELSE b

IsPrefix(s, t) == Len(s) <= Len(t) /\ s = SubSeq(t, 1, Len(s))

\* C1: every record parse_slides returns has a non-empty title; a segment
\* without a usable title line is dropped.
C1_TitlesNonEmpty ==
    stage = "parsed" => \A n \in 1..Len(parsed) : parsed[n].title # <<>>

\* C2: for a text with K markers and any max_slides a caller can pass (the
\* default, or the integer slide_count of a request body), parse_slides
\* returns at most min(K, max_slides) records: the count never exceeds the
\* requested maximum (a maximum below zero is read as admitting no record).
C2_AtMostMinOfMarkersAndMax ==
    stage = "parsed" =>
        Len(parsed) <= Min(CountMarkers(text),
                           IF max_slides < 0 THEN 0 ELSE max_slides)

\* Other casings of the marker word.
OtherCasings ==
    { <<"s", "l", "i", "d", "e">>, <<"S", "L", "I", "D", "E">>,
      <<"s", "L", "I", "D", "E">> }

\* The lines of the outline that start with the marker word.
MarkedLines(o) == {i \in 1..Len(o) : Chunk[o[i]].marked}

\* C3 as stated: the marker word is matched case-insensitively, so the text
\* with its marker words re-cased yields the same records.
C3_RecasedTextSameRecords ==
    (stage = "parsed" /\ FromOutline) =>
        \A w \in OtherCasings :
            parse_slides(Render(outline, final_newline, w), max_slides) = parsed

\* C3 amended: the marker word is matched case-sensitively.  Every marker
\* spelled "Slide" opens a segment, and the text with all its marker words
\* re-cased holds no marker and yields no record.
C3_MarkerWordCaseSensitive ==
    (stage = "parsed" /\ FromOutline) =>
        /\ Len(FindAll(text, 1)) = Cardinality(MarkedLines(outline))
        /\ \A w \in OtherCasings :
            LET recased == Render(outline, final_newline, w) IN
            /\ FindAll(recased, 1) = <<>>
            /\ parse_slides(recased, max_slides) = <<>>

\* C3 witness: a text whose markers give two records, and none re-cased.
C3_Witness ==
    /\ stage = "parsed"
    /\ FromOutline
    /\ Len(parsed) = 2
    /\ parse_slides(Render(outline, final_newline, <<"s", "l", "i", "d", "e">>),
                    max_slides) = <<>>

\* A line that survives the filter of the comprehension, and what is kept
\* of it.
HasContent(l) == \E i \in 1..Len(l) : ~IsSpace(l[i])

Trim(l) == Strip(l, BulletGlyphs)

\* The lines of the segment the marked line i opens: the rest of that line
\* and the lines up to the next marked line.
SegmentOf(o, i) ==
    LET later == {j \in MarkedLines(o) : j > i}
        stop == IF later = {} THEN Len(o) + 1
                ELSE CHOOSE j \in later : \A k \in later : j <= k
    IN  [n \in 1..(stop - i) |-> Chunk[o[i + n - 1]].body]

RECURSIVE ExpectedFrom(_, _)
\* The records of the outline in the order of its marked lines, from line i
\* on: the title is the first surviving line of a segment, the points are
\* the later surviving lines in their order.
ExpectedFrom(o, i) ==
    IF i > Len(o) THEN <<>>
    ELSE IF ~Chunk[o[i]].marked THEN ExpectedFrom(o, i + 1)
    ELSE LET sv == SelectSeq(SegmentOf(o, i), HasContent) IN
         (IF sv = <<>> THEN <<>>
          ELSE <<[title |-> Trim(sv[1]),
                  points |-> [n \in 1..(Len(sv) - 1) |-> Trim(sv[n + 1])]]>>)
            \o ExpectedFrom(o, i + 1)

ExampleRecords ==
    << [title |-> <<"I", "n", "t", "r", "o">>,
        points |-> << <<"p", "o", "i", "n", "t", " ", "a">>,
                      <<"p", "o", "i", "n", "t", " ", "b">> >>],
       [title |-> <<"C", "o", "n", "c", "l", "u", "s", "i", "o", "n">>,
        points |-> << <<"p", "o", "i", "n", "t", " ", "c">> >>] >>

ExampleParsed ==
    stage = "parsed" /\ text = ExampleText /\ parsed = ExampleRecords

-----------------------------------------------------------------------------
(* Properties of the theme lookup                                          *)

\* The names of the theme table.
TableNames == {"modern", "minimal", "corporate", "creative", "dark"}

\* A colour: three channels, each a byte.
IsRGB(c) == Len(c) = 3 /\ \A i \in 1..3 : c[i] \in 0..255

\* C9: theme resolution is total: for every template name (a table name,
\* the empty string, a missing name, any other name) every slide gets a
\* valid background/text colour pair; a name outside the table gets the
\* pair of "modern" and a table name gets its own pair.
C9_ThemeResolutionTotal ==
    build_pc # "off" =>
        \A n \in 1..Len(prs) :
            LET slide == prs[n]
                pair == [bg |-> slide.background, text |-> slide.title.color]
            IN  /\ IsRGB(pair.bg)
                /\ IsRGB(pair.text)
                /\ \A b \in 1..Len(slide.bullets) :
                       slide.bullets[b].color = pair.text
                /\ IF "template" \in DOMAIN build_in.data
                      /\ build_in.data.template \in TableNames
                   THEN pair = theme_colors[build_in.data.template]
                   ELSE pair = theme_colors["modern"]

\* C9 witness: a deck built for a name outside the table, all slides added.
C9_Witness ==
    /\ build_pc = "saved"
    /\ Len(prs) = 3
    /\ build_in.data = [template |-> "unknown-xyz"]
    /\ prs[3].background = <<25, 25, 112>>

-----------------------------------------------------------------------------
(* Properties of the endpoints                                             *)

OnlyWhitespace(t) == \A i \in 1..Len(t) : IsSpace(t[i])

Steps(r) == {trace[r][i] : i \in 1..Len(trace[r])}

Done(r, route) == pc[r] = "done" /\ req[r].route = route

\* The external generation call of request r was made and raised.
CallFailed(r) == "call" \in Steps(r) /\ pc[r] # "calling" /\ ai_text[r] = None

\* The external generation call of request r was made and returned a text.
CallReturned(r) == "call" \in Steps(r) /\ pc[r] # "calling" /\ ai_text[r] # None

SlideCountOf(r) ==
    IF "slide_count" \in DOMAIN req[r].data
    THEN req[r].data.slide_count
    ELSE DefaultMaxSlides

TopicOf(r) == IF "topic" \in DOMAIN req[r].data THEN req[r].data.topic ELSE <<>>

TextOf(r) == IF "text" \in DOMAIN req[r].data THEN req[r].data.text ELSE <<>>

TemplateOf(r) ==
    IF "template" \in DOMAIN req[r].data THEN req[r].data.template ELSE "modern"

AutoSuccessFields == {"success", "file_path", "download_url", "slides_generated"}

IsAutoSuccess(resp) ==
    /\ resp.status = 200
    /\ DOMAIN resp.body = AutoSuccessFields
    /\ resp.body.success = TRUE

IsFailure(resp) ==
    \/ resp.status = 400
    \/ resp = [status |-> 500,
               body |-> [success |-> FALSE, error |-> "AI generation failed"]]

\* C7: no partial success.  A request answered 200 has written exactly one
\* file, complete, and its download_url names that file; a request answered
\* with a validation, parse-failure or upstream-failure response has left
\* the output directory as it was.
C7_NoPartialSuccess ==
    \A r \in Requests : pc[r] = "done" =>
        LET resp == response[r][1] IN
        /\ resp.status = 200 =>
              /\ Cardinality(written[r]) = 1
              /\ \A f \in written[r] :
                    /\ f \in DOMAIN generated
                    /\ generated[f].complete
                    /\ generated[f].deck = Deck(slides_data[r], TemplateOf(r))
                    /\ resp.body.download_url = <<"/generated/">> \o f
        /\ IsFailure(resp) => written[r] = {}

\* C7 witness: one request answered 200 with its file in place, another
\* answered 500 after the generation call failed.
C7_Witness ==
    \E r1, r2 \in Requests :
        /\ pc[r1] = "done" /\ response[r1][1].status = 200
        /\ filename[r1] \in DOMAIN generated
        /\ pc[r2] = "done" /\ CallFailed(r2) /\ response[r2][1].status = 500

\* No file of the directory is replaced, changed or removed by a step.
FilesKept ==
    \A f \in DOMAIN generated :
        f \in DOMAIN generated' /\ generated'[f] = generated[f]

\* No two requests have written the same file.
WritesDisjoint ==
    \A r1, r2 \in Requests : r1 # r2 => written[r1] \cap written[r2] = {}

\* A request answered 200 names the file its own prs.save wrote.
SuccessNamesOwnFile ==
    \A r \in Requests : (pc[r] = "done" /\ response[r][1].status = 200) =>
        /\ written[r] = {filename[r]}
        /\ response[r][1].body.download_url = <<"/generated/">> \o filename[r]

\* C8: under any interleaving of concurrent requests no two requests write
\* the same file: every save goes to a fresh name, a file once written is
\* never overwritten or deleted, and every success response names the file
\* its own request wrote.
C8_ConcurrentWritesNeverCollide ==
    /\ [](WritesDisjoint /\ SuccessNamesOwnFile)
    /\ [][FilesKept]_vars

\* C8 witness: two requests answered 200, each with its own file in the
\* directory.
C8_Witness ==
    \E r1, r2 \in Requests :
        /\ r1 # r2
        /\ pc[r1] = "done" /\ response[r1][1].status = 200
        /\ pc[r2] = "done" /\ response[r2][1].status = 200
        /\ filename[r1] # filename[r2]
        /\ written[r1] = {filename[r1]}
        /\ written[r2] = {filename[r2]}
        /\ {filename[r1], filename[r2]} \subseteq DOMAIN generated

\* The step sequences of a handled /generate-auto-ppt request.
AutoRuns ==
    { <<"validate", "respond">>,
      <<"validate", "call", "respond">>,
      <<"validate", "call", "parse", "respond">>,
      <<"validate", "call", "parse", "build", "respond">> }

\* C10: a /generate-auto-ppt request goes validate, call, parse, build,
\* respond in that order, each step only after the one before succeeded:
\* the call is made at most once and never for an empty topic, the parser
\* runs only on a text the call returned, the builder runs only on at least
\* one record, and the request ends in exactly one response.
C10_AutoStepsInOrder ==
    \A r \in Requests : req[r].route = "/generate-auto-ppt" =>
        /\ \E run \in AutoRuns : IsPrefix(trace[r], run)
        /\ "call" \in Steps(r) => ~OnlyWhitespace(TopicOf(r))
        /\ "parse" \in Steps(r) => CallReturned(r) /\ ai_text[r] # <<>>
        /\ "build" \in Steps(r) =>
              /\ slides_data[r] # <<>>
              /\ slides_data[r] = parse_slides(ai_text[r], SlideCountOf(r))
        /\ Len(response[r]) <= 1
        /\ pc[r] = "done" <=> Len(response[r]) = 1
        /\ pc[r] = "done" => trace[r] \in AutoRuns

\* C10 witness: a request that went through all five steps.
C10_Witness ==
    \E r \in Requests :
        /\ Done(r, "/generate-auto-ppt")
        /\ trace[r] = <<"validate", "call", "parse", "build", "respond">>
        /\ Len(response[r]) = 1

====
